---- MODULE Spec2Model ----
(***************************************************************************)
(* Predictor (src/src/predictor.py): the multi-pass refinement engine of   *)
(* fast-gector.  handle_batch drives preprocess -> predict -> postprocess  *)
(* -> update_final_batch until every sentence is deactivated or the        *)
(* iteration budget is spent.                                              *)
(*                                                                         *)
(* Strings are sequences of one-character strings, so that startswith,     *)
(* index("_"), slicing and the whitespace search are computed as the code  *)
(* computes them.  Sentence ids are positions in the batch, counted from 1 *)
(* (Python counts from 0); word positions inside edits and label rows are  *)
(* the code's own 0-based numbers.  Probabilities are whole numbers on the *)
(* scale 0 .. ProbOne.                                                     *)
(***************************************************************************)
EXTENDS Integers, Sequences, FiniteSets, TLC

VARIABLES
    self,                    \* the Predictor's configuration (__init__)
    full_batch,              \* the argument of handle_batch
    final_batch,             \* handle_batch: current sequence of every sentence
    prev_preds_dict,         \* handle_batch: history of every sentence
    pred_ids,                \* handle_batch: ids still active
    total_updates,           \* handle_batch: running update count
    n_iter,                  \* handle_batch: loop variable (next iteration)
    pc,                      \* where the caller is: "pending" | "loop" | "done" |
                             \* "raised"; "tag" | "postprocess" | "returned" for a
                             \* direct call of the tagger and postprocess;
                             \* "decode" | "decoded" for one of get_label_action
    exc,                     \* the exception raised, or "none"
    ori_batch,               \* the batch handed to preprocess and postprocess
    truncated_seq_lengths,   \* what preprocess returned for it
    label_probs,             \* the tagger's output handed to a direct call of
    label_ids,               \* postprocess ...
    max_detect_incor_probs,
    pred_batch,              \* what postprocess returned
    edits_batch,             \* the edit list postprocess built per sentence
    decode_args,             \* the arguments of a direct call of get_label_action
    label_action,            \* what that call returned
    predict_calls,           \* number of calls of predict in this handle_batch
    diff_pairs,              \* number of (sentence, pass) pairs with proposal # current
    deact,                   \* how each sentence left the active set
    run,                     \* 1: first call, 2: the call on its own output
    first_run,               \* outcome of the first call, kept for the second
    memo                     \* outputs a deterministic tagger has already given

vars == <<self, full_batch, final_batch, prev_preds_dict, pred_ids, total_updates,
          n_iter, pc, exc, ori_batch, truncated_seq_lengths, label_probs, label_ids,
          max_detect_incor_probs, pred_batch, edits_batch, decode_args,
          label_action, predict_calls, diff_pairs, deact, run, first_run, memo>>

----------------------------------------------------------------------------
(* Bounds of the model. *)

\* longest sentence (in words) a batch of the orchestrator runs may hold
MaxLen == 2
\* longest sentence of the single-sentence decoding runs
MaxDecodeLen == 4
\* largest batch of the orchestrator runs
MaxBatch == 2
\* largest iteration_count
MaxIter == 3
\* most positions of one sentence the tagger labels other than $KEEP
MaxNonKeep == 2

\* the probability 1.0 on the model's scale
ProbOne == 2
Probs == 0 .. ProbOne

----------------------------------------------------------------------------
(* Strings and small helpers. *)

Min(a, b) == IF a < b THEN a ELSE b
Max(a, b) == IF a > b THEN a ELSE b

Range(s) == {s[i] : i \in 1 .. Len(s)}

\* s[:n] and s[n:] of Python, for any integer n >= 0 (negative n: clamped to 0)
Take(s, n) == SubSeq(s, 1, Min(Max(n, 0), Len(s)))
Drop(s, n) == SubSeq(s, Min(Max(n, 0), Len(s)) + 1, Len(s))

\* str.startswith
startswith(s, prefix) ==
    /\ Len(s) >= Len(prefix)
    /\ SubSeq(s, 1, Len(prefix)) = prefix

\* str.index(ch): the 0-based position of the first ch, -1 when there is none
\* (where Python raises ValueError)
index(s, ch) ==
    IF \E i \in 1 .. Len(s) : s[i] = ch
    THEN (CHOOSE i \in 1 .. Len(s) : s[i] = ch /\ \A j \in 1 .. i - 1 : s[j] # ch) - 1
    ELSE -1

\* a character \s matches
IsSpace(c) == c \in {" ", "\t", "\n", "\r"}

\* a slip of line 246: the pattern "\s\s+", which a single blank does not match
MatchesWhitespace_TwoOrMore(token) ==
    \E i \in 1 .. Len(token) - 1 : IsSpace(token[i]) /\ IsSpace(token[i + 1])

\* re.search("\s+", token)
MatchesWhitespace(token) == \E i \in 1 .. Len(token) : IsSpace(token[i])

\* str.split(): the whitespace-separated words of a text
RECURSIVE SplitFrom(_, _, _)
SplitFrom(text, i, word) ==
    IF i > Len(text)
    THEN IF word = <<>> THEN <<>> ELSE <<word>>
    ELSE IF IsSpace(text[i])
         THEN (IF word = <<>> THEN <<>> ELSE <<word>>) \o SplitFrom(text, i + 1, <<>>)
         ELSE SplitFrom(text, i + 1, Append(word, text[i]))

split(text) == SplitFrom(text, 1, <<>>)

\* max() of a non-empty sequence of integers
MaxOf(s) == CHOOSE m \in Range(s) : \A x \in Range(s) : x <= m

\* str(i) for 0 <= i <= 9
Digit(i) == <<<<"0", "1", "2", "3", "4", "5", "6", "7", "8", "9">>[i + 1]>>

----------------------------------------------------------------------------
(* utils.helpers: the reserved labels and the start marker. *)

START_TOKEN == <<"$", "S", "T", "A", "R", "T">>
KEEP_LABEL == <<"$", "K", "E", "E", "P">>
PAD_LABEL == <<"@", "@", "P", "A", "D", "D", "I", "N", "G", "@", "@">>
UNK_LABEL == <<"@", "@", "U", "N", "K", "N", "O", "W", "N", "@", "@">>

\* the label families get_label_action tests for
P_REPLACE == <<"$", "R", "E", "P", "L", "A", "C", "E", "_">>
P_TRANSFORM == <<"$", "T", "R", "A", "N", "S", "F", "O", "R", "M", "_">>
P_APPEND == <<"$", "A", "P", "P", "E", "N", "D", "_">>
P_MERGE == <<"$", "M", "E", "R", "G", "E", "_">>
L_DELETE == <<"$", "D", "E", "L", "E", "T", "E">>

\* the labels of the correction vocabularies of the model
L_REPLACE_b == P_REPLACE \o <<"b">>
L_APPEND_a == P_APPEND \o <<"a">>
L_TRANSFORM_UP == P_TRANSFORM \o <<"U", "P">>
L_MERGE_SP == P_MERGE \o <<"S", "P">>
\* two labels of no family: one with a "_", one without
L_SWAP_x == <<"$", "S", "W", "A", "P", "_", "x">>
L_NOOP == <<"$", "N", "O", "O", "P">>
\* a replacement whose payload holds a "_" itself
L_REPLACE_a_b == P_REPLACE \o <<"a", "_", "b">>

\* Seq2EditVocab.correct_vocab["id2tag"]: two assignments of ids to the same
\* labels. Ids are positions in the sequence, counted from 0.
VocabKeepFirst ==
    <<KEEP_LABEL, L_DELETE, L_REPLACE_b, L_APPEND_a, L_TRANSFORM_UP, L_MERGE_SP,
      L_SWAP_x, L_NOOP, UNK_LABEL, PAD_LABEL>>
VocabKeepLater ==
    <<L_DELETE, KEEP_LABEL, L_REPLACE_b, L_APPEND_a, L_TRANSFORM_UP, L_MERGE_SP,
      L_SWAP_x, L_NOOP, UNK_LABEL, PAD_LABEL>>

\* correct_vocab["id2tag"][label_id] and correct_vocab["tag2id"][tag]
id2tag(label_id) == self.id2tag[label_id + 1]
tag2id(tag) == (CHOOSE i \in 1 .. Len(self.id2tag) : self.id2tag[i] = tag) - 1

----------------------------------------------------------------------------
(* The words of the model's sentences. *)

W_a == <<"a">>
W_b == <<"b">>
W_sp == <<" ">>

----------------------------------------------------------------------------
(* Predictor.get_label_action *)

None == [kind |-> "None"]
Raise(e) == [kind |-> "raise", exc |-> e]

\* a slip of lines 311-313: an insertion given the span of a replacement
Span_NoInsertionPoint(idx, label) ==
    IF startswith(label, P_REPLACE) \/ startswith(label, P_TRANSFORM) \/ label = L_DELETE
       \/ startswith(label, P_APPEND) \/ startswith(label, P_MERGE)
    THEN [bound |-> TRUE, start_pos |-> idx, end_pos |-> idx + 1]
    ELSE [bound |-> FALSE]

\* lines 308-313: the span of the label's family, or none (start_pos and end_pos
\* stay unbound)
Span(idx, label) ==
    IF startswith(label, P_REPLACE) \/ startswith(label, P_TRANSFORM) \/ label = L_DELETE
    THEN [bound |-> TRUE, start_pos |-> idx, end_pos |-> idx + 1]
    ELSE IF startswith(label, P_APPEND) \/ startswith(label, P_MERGE)
         THEN [bound |-> TRUE, start_pos |-> idx + 1, end_pos |-> idx + 1]
         ELSE [bound |-> FALSE]

\* a slip of line 322: the payload cut after the last "_" (rindex for index)
ProcessedLabel_LastSeparator(label) ==
    IF label = L_DELETE
    THEN [ok |-> TRUE, text |-> <<>>]
    ELSE IF startswith(label, P_TRANSFORM) \/ startswith(label, P_MERGE)
         THEN [ok |-> TRUE, text |-> label]
         ELSE IF index(label, "_") < 0
              THEN [ok |-> FALSE]
              ELSE LET last == CHOOSE i \in 1 .. Len(label) :
                                  label[i] = "_" /\ \A j \in i + 1 .. Len(label) : label[j] # "_"
                   IN  [ok |-> TRUE, text |-> Drop(label, last)]

\* lines 317-322: processed_label; label.index("_") raises ValueError when the
\* label holds no "_"
ProcessedLabel(label) ==
    IF label = L_DELETE
    THEN [ok |-> TRUE, text |-> <<>>]
    ELSE IF startswith(label, P_TRANSFORM) \/ startswith(label, P_MERGE)
         THEN [ok |-> TRUE, text |-> label]
         ELSE IF index(label, "_") < 0
              THEN [ok |-> FALSE]
              ELSE [ok |-> TRUE, text |-> Drop(label, index(label, "_") + 1)]

\* a slip of line 300: the floor itself is rejected too
LowConfidence_Inclusive(label_prob) == label_prob <= self.min_error_probability

\* line 300
LowConfidence(label_prob) == label_prob < self.min_error_probability

\* a slip of line 324: the span emitted as it stands, the start marker not
\* taken off
get_label_action_Unshifted(token, idx, label_prob, label) ==
    IF LowConfidence(label_prob)
    THEN None
    ELSE IF label \in {UNK_LABEL, PAD_LABEL, KEEP_LABEL}
    THEN None
    ELSE LET span == Span(idx, label)
             processed_label == ProcessedLabel(label)
         IN  IF ~processed_label.ok
             THEN Raise("ValueError: substring not found")
             ELSE IF ~span.bound
             THEN Raise("UnboundLocalError: start_pos")
             ELSE [kind |-> "action",
                   start |-> span.start_pos,
                   end |-> span.end_pos,
                   label |-> processed_label.text,
                   prob |-> label_prob]

get_label_action(token, idx, label_prob, label) ==
    IF LowConfidence(label_prob)
    THEN None
    ELSE IF label \in {UNK_LABEL, PAD_LABEL, KEEP_LABEL}
    THEN None
    ELSE LET span == Span(idx, label)
             processed_label == ProcessedLabel(label)
         IN  IF ~processed_label.ok
             THEN Raise("ValueError: substring not found")
             ELSE IF ~span.bound
             THEN Raise("UnboundLocalError: start_pos")
             ELSE [kind |-> "action",
                   start |-> span.start_pos - 1,
                   end |-> span.end_pos - 1,
                   label |-> processed_label.text,
                   prob |-> label_prob]

----------------------------------------------------------------------------
(* utils.helpers.get_target_sent_by_edits, the edit applier: edits are applied
   left to right with a running length delta. *)

RECURSIVE ApplyFrom(_, _, _, _)
ApplyFrom(words, edits, i, delta) ==
    IF i > Len(edits)
    THEN words
    ELSE LET e == edits[i]
             replacement == split(e.label)
             applied == Take(words, e.start + delta) \o replacement
                        \o Drop(words, Max(e.end + delta, e.start + delta))
         IN  ApplyFrom(applied, edits, i + 1,
                       delta + Len(replacement) - (e.end - e.start))

\* a slip of the applier: the length delta of the edits already applied is
\* forgotten, every edit lands at its original position
RECURSIVE ApplyInPlaceFrom(_, _, _)
ApplyInPlaceFrom(words, edits, i) ==
    IF i > Len(edits)
    THEN words
    ELSE ApplyInPlaceFrom(Take(words, edits[i].start) \o split(edits[i].label)
                              \o Drop(words, Max(edits[i].end, edits[i].start)),
                          edits, i + 1)

get_target_sent_by_edits_NoDelta(tokens, edits) == ApplyInPlaceFrom(tokens, edits, 1)

get_target_sent_by_edits(tokens, edits) == ApplyFrom(tokens, edits, 1, 0)

----------------------------------------------------------------------------
(* MisMatchedTokenizer.encode: only the number of words it retains. Every word
   takes one subword piece per character, at most max_pieces_per_token; words
   are admitted while the pieces fit max_tokens. *)

Pieces(word) == Min(Max(Len(word), 1), self.max_pieces_per_token)

RECURSIVE Retained(_, _, _)
Retained(words, k, used) ==
    IF k >= Len(words)
    THEN k
    ELSE IF used + Pieces(words[k + 1]) > self.max_num_tokens
         THEN k
         ELSE Retained(words, k + 1, used + Pieces(words[k + 1]))

\* truncated_seq_length for [START_TOKEN] + words
encode(words) == Retained(<<START_TOKEN>> \o words, 0, 0)

----------------------------------------------------------------------------
(* Predictor.postprocess, for one sentence of the batch. *)

\* lines 217-223: the forced edits of debug mode
RECURSIVE ForcedFrom(_, _)
ForcedFrom(tokens, i) ==
    IF i >= Min(Len(tokens), 10)
    THEN <<>>
    ELSE <<[kind |-> "action", start |-> i, end |-> i + 1,
            label |-> <<"F", "O", "R", "C", "E", "D", "_", "E", "D", "I", "T", "_">>
                      \o Digit(i),
            prob |-> ProbOne]>>
         \o ForcedFrom(tokens, i + 3)

ForcedEdits(tokens) ==
    IF self.debug_force_edit /\ Len(tokens) > 3 THEN ForcedFrom(tokens, 2) ELSE <<>>

\* line 192
keep_id == tag2id(KEEP_LABEL)

\* line 226: max(label_ids) == keep_id
IsAllKeep(ids) == MaxOf(ids) = keep_id

\* lines 237-260: the decoding loop from position idx on, edits collected so far
RECURSIVE DecodeFrom(_, _, _, _, _, _)
DecodeFrom(tokens, truncated_seq_length, probs, ids, idx, edits) ==
    IF idx >= truncated_seq_length
    THEN [kind |-> "ok", edits |-> edits]
    ELSE LET token == IF idx = 0 THEN START_TOKEN ELSE tokens[idx]
             next(es) == DecodeFrom(tokens, truncated_seq_length, probs, ids,
                                    idx + 1, es)
         IN  IF ids[idx + 1] = keep_id
             THEN next(edits)
             ELSE IF MatchesWhitespace(token)
             THEN next(edits)
             ELSE LET action == get_label_action(token, idx, probs[idx + 1],
                                                 id2tag(ids[idx + 1]))
                  IN  IF action.kind = "raise"
                      THEN action
                      ELSE IF action.kind = "None"
                      THEN next(edits)
                      ELSE next(Append(edits, action))

\* a slip of line 232: the aggregate probability compared one step too low
SkipByIncorProb_OffByOne(incor_prob) == incor_prob + 1 < self.min_error_probability

\* line 232
SkipByIncorProb(incor_prob) == incor_prob < self.min_error_probability

\* one turn of the loop over the batch: [kind "ok", edits, result] or a raise
postprocess(tokens, truncated_seq_length, probs, ids, incor_prob) ==
    LET forced == ForcedEdits(tokens)
    IN  IF IsAllKeep(ids) /\ ~self.debug_force_edit
        THEN [kind |-> "ok", edits |-> <<>>, result |-> tokens]
        ELSE IF SkipByIncorProb(incor_prob)
        THEN [kind |-> "ok", edits |-> <<>>, result |-> tokens]
        ELSE LET d == DecodeFrom(tokens, truncated_seq_length, probs, ids, 0, forced)
             IN  IF d.kind = "raise"
                 THEN d
                 ELSE IF d.edits # <<>>
                 THEN [kind |-> "ok", edits |-> d.edits,
                       result |-> get_target_sent_by_edits(tokens, d.edits)]
                 ELSE [kind |-> "ok", edits |-> <<>>, result |-> tokens]


----------------------------------------------------------------------------
(* Predictor.preprocess: [] for a batch with no non-empty sentence, else the
   input dict (not modelled) and the truncated lengths. *)

preprocess(seqs) ==
    LET seq_lens == SelectSeq(seqs, LAMBDA seq : seq # <<>>)
    IN  IF seq_lens = <<>>
        THEN [kind |-> "empty"]
        ELSE [kind |-> "pair",
              truncated_seq_lengths |-> [i \in 1 .. Len(seqs) |-> encode(seqs[i])]]

----------------------------------------------------------------------------
(* Predictor.predict: the external tagger. self.model says what it may return:
   labels (other than $KEEP) and probabilities per position, the aggregate
   incorrectness probabilities, and whether its output is a function of the
   sentence alone. *)

\* the outputs the tagger may give for one sentence of n retained words
TaggerOutputs(n) ==
    LET pairs == {<<tag2id(l), p>> : l \in self.model.labels, p \in self.model.probs}
        places == {S \in SUBSET (1 .. n) : Cardinality(S) <= MaxNonKeep}
    IN  UNION {
          {[label_ids |-> [i \in 1 .. n |-> IF i \in S THEN f[i][1] ELSE keep_id],
            label_probs |-> [i \in 1 .. n |-> IF i \in S THEN f[i][2] ELSE ProbOne],
            incor_prob |-> c] : f \in [S -> pairs], c \in self.model.incor_probs}
          : S \in places}

\* what postprocess makes of one sentence under the outputs the tagger may give:
\* the proposals, and the exceptions
Outcomes(tokens, truncated_seq_length) ==
    LET all == {postprocess(tokens, truncated_seq_length, o.label_probs, o.label_ids,
                            o.incor_prob) : o \in TaggerOutputs(truncated_seq_length)}
        kept == {r \in all : r.kind = "raise" \/ Len(r.result) <= self.model.max_words}
    IN  {IF r.kind = "raise" THEN r ELSE [kind |-> "ok", result |-> r.result] :
           r \in kept}

\* the same over a batch; a deterministic tagger repeats what it gave
RECURSIVE BatchOutcomes(_, _, _)
BatchOutcomes(seqs, lengths, i) ==
    IF i > Len(seqs)
    THEN {<<>>}
    ELSE LET here == IF self.model.deterministic /\ seqs[i] \in DOMAIN memo
                     THEN {[kind |-> "ok", result |-> memo[seqs[i]]]}
                     ELSE Outcomes(seqs[i], lengths[i])
         IN  {<<h>> \o t : h \in here, t \in BatchOutcomes(seqs, lengths, i + 1)}

predict_postprocess(seqs, lengths) ==
    {outs \in BatchOutcomes(seqs, lengths, 1) :
        self.model.deterministic =>
            \A i, j \in 1 .. Len(seqs) : seqs[i] = seqs[j] => outs[i] = outs[j]}

\* the proposals a deterministic tagger is now bound to
Remember(seqs, preds) ==
    IF self.model.deterministic
    THEN [s \in DOMAIN memo \cup Range(seqs) |->
            IF s \in DOMAIN memo THEN memo[s]
            ELSE preds[CHOOSE i \in 1 .. Len(seqs) : seqs[i] = s]]
    ELSE memo

----------------------------------------------------------------------------
(* Predictor.update_final_batch *)

\* update_final_batch with two slips to choose from: a sentence whose proposal
\* was seen before stays active (keeps), or is not counted (uncounted)
RECURSIVE SlippedUpdateFrom(_, _, _, _, _, _, _, _, _)
SlippedUpdateFrom(fb, ids, preds, prev, i, new_pred_ids, total_updated, keeps,
                  uncounted) ==
    IF i > Len(ids)
    THEN [final_batch |-> fb, pred_ids |-> new_pred_ids, cnt |-> total_updated,
          prev_preds_dict |-> prev]
    ELSE LET ori_id == ids[i]
             pred_tokens == preds[i]
         IN  IF fb[ori_id] # pred_tokens
             THEN IF pred_tokens \notin Range(prev[ori_id])
                  THEN SlippedUpdateFrom([fb EXCEPT ![ori_id] = pred_tokens], ids,
                           preds, [prev EXCEPT ![ori_id] = Append(@, pred_tokens)],
                           i + 1, Append(new_pred_ids, ori_id), total_updated + 1,
                           keeps, uncounted)
                  ELSE SlippedUpdateFrom([fb EXCEPT ![ori_id] = pred_tokens], ids,
                           preds, prev, i + 1,
                           IF keeps THEN Append(new_pred_ids, ori_id)
                           ELSE new_pred_ids,
                           IF uncounted THEN total_updated ELSE total_updated + 1,
                           keeps, uncounted)
             ELSE SlippedUpdateFrom(fb, ids, preds, prev, i + 1, new_pred_ids,
                                    total_updated, keeps, uncounted)

update_final_batch_KeepsCycling(fb, ids, preds, prev) ==
    SlippedUpdateFrom(fb, ids, preds, prev, 1, <<>>, 0, TRUE, FALSE)

update_final_batch_CountsFreshOnly(fb, ids, preds, prev) ==
    SlippedUpdateFrom(fb, ids, preds, prev, 1, <<>>, 0, FALSE, TRUE)

\* update_final_batch with two more slips to choose from: final_batch indexed
\* by the position i in pred_ids instead of ori_id (by_position), or the
\* proposal appended to the history on a cycle break as well (appends_always)
RECURSIVE MisMergedFrom(_, _, _, _, _, _, _, _, _)
MisMergedFrom(fb, ids, preds, prev, i, new_pred_ids, total_updated, by_position,
              appends_always) ==
    IF i > Len(ids)
    THEN [final_batch |-> fb, pred_ids |-> new_pred_ids, cnt |-> total_updated,
          prev_preds_dict |-> prev]
    ELSE LET ori_id == ids[i]
             target == IF by_position THEN i ELSE ori_id
             pred_tokens == preds[i]
         IN  IF fb[ori_id] # pred_tokens
             THEN IF pred_tokens \notin Range(prev[ori_id])
                  THEN MisMergedFrom([fb EXCEPT ![target] = pred_tokens], ids, preds,
                           [prev EXCEPT ![ori_id] = Append(@, pred_tokens)],
                           i + 1, Append(new_pred_ids, ori_id), total_updated + 1,
                           by_position, appends_always)
                  ELSE MisMergedFrom([fb EXCEPT ![target] = pred_tokens], ids, preds,
                           IF appends_always
                           THEN [prev EXCEPT ![ori_id] = Append(@, pred_tokens)]
                           ELSE prev,
                           i + 1, new_pred_ids, total_updated + 1,
                           by_position, appends_always)
             ELSE MisMergedFrom(fb, ids, preds, prev, i + 1, new_pred_ids,
                                total_updated, by_position, appends_always)

update_final_batch_IndexByPosition(fb, ids, preds, prev) ==
    MisMergedFrom(fb, ids, preds, prev, 1, <<>>, 0, TRUE, FALSE)

update_final_batch_AppendsAlways(fb, ids, preds, prev) ==
    MisMergedFrom(fb, ids, preds, prev, 1, <<>>, 0, FALSE, TRUE)

RECURSIVE UpdateFrom(_, _, _, _, _, _, _)
UpdateFrom(fb, ids, preds, prev, i, new_pred_ids, total_updated) ==
    IF i > Len(ids)
    THEN [final_batch |-> fb, pred_ids |-> new_pred_ids, cnt |-> total_updated,
          prev_preds_dict |-> prev]
    ELSE LET ori_id == ids[i]
             ori_tokens == fb[ori_id]
             pred_tokens == preds[i]
             prev_preds == prev[ori_id]
         IN  IF ori_tokens # pred_tokens
             THEN IF pred_tokens \notin Range(prev_preds)
                  THEN UpdateFrom([fb EXCEPT ![ori_id] = pred_tokens], ids, preds,
                                  [prev EXCEPT ![ori_id] = Append(@, pred_tokens)],
                                  i + 1, Append(new_pred_ids, ori_id),
                                  total_updated + 1)
                  ELSE UpdateFrom([fb EXCEPT ![ori_id] = pred_tokens], ids, preds,
                                  prev, i + 1, new_pred_ids, total_updated + 1)
             ELSE UpdateFrom(fb, ids, preds, prev, i + 1, new_pred_ids, total_updated)

update_final_batch(fb, ids, preds, prev) == UpdateFrom(fb, ids, preds, prev, 1, <<>>, 0)

----------------------------------------------------------------------------
(* Predictor.handle_batch *)

\* why each sentence of ids left, or stays in, the active set after a merge
Deactivation(fb, ids, preds, prev, old) ==
    [k \in DOMAIN old |->
        IF \E i \in 1 .. Len(ids) : ids[i] = k
        THEN LET i == CHOOSE i \in 1 .. Len(ids) : ids[i] = k
             IN  IF preds[i] = fb[k] THEN "converged"
                 ELSE IF preds[i] \in Range(prev[k]) THEN "cycle"
                 ELSE "active"
        ELSE old[k]]

\* a slip of line 137: a sentence one word short of min_seq_len is kept
short_skip_id_set_OffByOne(batch) ==
    {idx \in 1 .. Len(batch) : Len(batch[idx]) < self.min_seq_len - 1}

\* lines 136-137
short_skip_id_set(batch) ==
    {idx \in 1 .. Len(batch) : Len(batch[idx]) < self.min_seq_len}

\* lines 133-141: the state handle_batch sets up before its loop
Enter(batch, iteration_count) ==
    LET short == short_skip_id_set(batch)
    IN  /\ final_batch' = batch
        /\ prev_preds_dict' = [idx \in 1 .. Len(batch) |-> <<batch[idx]>>]
        /\ pred_ids' = SelectSeq([idx \in 1 .. Len(batch) |-> idx],
                                 LAMBDA idx : idx \notin short)
        /\ total_updates' = 0
        /\ n_iter' = 0
        /\ pc' = IF iteration_count = 0 THEN "done" ELSE "loop"
        /\ exc' = "none"
        /\ ori_batch' = <<>>
        /\ truncated_seq_lengths' = <<>>
        /\ pred_batch' = <<>>
        /\ predict_calls' = 0
        /\ diff_pairs' = 0
        /\ deact' = [idx \in 1 .. Len(batch) |->
                        IF idx \in short THEN "short" ELSE "active"]
        /\ UNCHANGED <<label_probs, label_ids, max_detect_incor_probs, edits_batch,
                       decode_args, label_action>>

\* the caller calls handle_batch(full_batch)
Call ==
    /\ pc = "pending"
    /\ Enter(full_batch, self.iteration_count)
    /\ UNCHANGED <<self, full_batch, run, first_run, memo>>

\* lines 143-160: one iteration of the loop. The unpacking of line 145 raises
\* ValueError when preprocess returns [], so the break of line 147 is never
\* reached: the input dict of a non-empty batch is never empty. An exception
\* leaves the loop with nothing merged and nothing returned.
Iterate ==
    /\ pc = "loop"
    /\ n_iter < self.iteration_count
    /\ LET ori == [i \in 1 .. Len(pred_ids) |-> final_batch[pred_ids[i]]]
           pre == preprocess(ori)
       IN  IF pre.kind = "empty"
           THEN /\ pc' = "raised"
                /\ exc' = "ValueError: not enough values to unpack"
                /\ ori_batch' = ori
                /\ UNCHANGED <<final_batch, prev_preds_dict, pred_ids, total_updates,
                               n_iter, truncated_seq_lengths, pred_batch,
                               predict_calls, diff_pairs, deact, memo>>
           ELSE \E outs \in predict_postprocess(ori, pre.truncated_seq_lengths) :
                  LET raised == {i \in 1 .. Len(ori) : outs[i].kind = "raise"}
                      preds == [i \in 1 .. Len(ori) |-> outs[i].result]
                      upd == update_final_batch(final_batch, pred_ids, preds,
                                                prev_preds_dict)
                  IN  /\ ori_batch' = ori
                      /\ truncated_seq_lengths' = pre.truncated_seq_lengths
                      /\ predict_calls' = predict_calls + 1
                      /\ IF raised # {}
                         THEN /\ pc' = "raised"
                              /\ exc' = outs[CHOOSE i \in raised :
                                               \A j \in raised : i <= j].exc
                              /\ UNCHANGED <<final_batch, prev_preds_dict, pred_ids,
                                             total_updates, n_iter, pred_batch,
                                             diff_pairs, deact, memo>>
                         ELSE /\ pred_batch' = preds
                              /\ final_batch' = upd.final_batch
                              /\ pred_ids' = upd.pred_ids
                              /\ prev_preds_dict' = upd.prev_preds_dict
                              /\ total_updates' = total_updates + upd.cnt
                              /\ n_iter' = n_iter + 1
                              /\ pc' = IF upd.pred_ids = <<>>
                                          \/ n_iter + 1 >= self.iteration_count
                                       THEN "done" ELSE "loop"
                              /\ exc' = exc
                              /\ diff_pairs' = diff_pairs
                                     + Cardinality({i \in 1 .. Len(ori) :
                                                      preds[i] # ori[i]})
                              /\ deact' = Deactivation(final_batch, pred_ids, preds,
                                                       prev_preds_dict, deact)
                              /\ memo' = Remember(ori, preds)
    /\ UNCHANGED <<self, full_batch, run, first_run, label_probs, label_ids,
                   max_detect_incor_probs, edits_batch, decode_args, label_action>>

\* the caller calls handle_batch again, on the batch the first call returned,
\* with iteration_count = 1 and the same (deterministic) tagger
Recall ==
    /\ pc = "done"
    /\ run = 1
    /\ self.model.deterministic
    /\ run' = 2
    /\ first_run' = [returned |-> final_batch,
                     total_updates |-> total_updates,
                     converged |-> /\ pred_ids = <<>>
                                   /\ \A k \in DOMAIN deact :
                                         deact[k] \in {"short", "converged"}]
    /\ self' = [self EXCEPT !.iteration_count = 1]
    /\ full_batch' = final_batch
    /\ Enter(final_batch, 1)
    /\ UNCHANGED memo

\* a direct call of the tagger on one preprocessed sentence
Tag ==
    /\ pc = "tag"
    /\ \E o \in TaggerOutputs(truncated_seq_lengths[1]) :
          /\ label_probs' = <<o.label_probs>>
          /\ label_ids' = <<o.label_ids>>
          /\ max_detect_incor_probs' = <<o.incor_prob>>
    /\ pc' = "postprocess"
    /\ UNCHANGED <<self, full_batch, final_batch, prev_preds_dict, pred_ids,
                   total_updates, n_iter, exc, ori_batch, truncated_seq_lengths,
                   pred_batch, edits_batch, decode_args, label_action, predict_calls,
                   diff_pairs, deact, run, first_run, memo>>

\* a direct call of postprocess on that sentence and the tagger's output for it
Postprocess ==
    /\ pc = "postprocess"
    /\ LET r == postprocess(ori_batch[1], truncated_seq_lengths[1], label_probs[1],
                            label_ids[1], max_detect_incor_probs[1])
       IN  IF r.kind = "raise"
           THEN /\ pc' = "raised"
                /\ exc' = r.exc
                /\ UNCHANGED <<pred_batch, edits_batch>>
           ELSE /\ pc' = "returned"
                /\ exc' = exc
                /\ pred_batch' = <<r.result>>
                /\ edits_batch' = <<r.edits>>
    /\ UNCHANGED <<self, full_batch, final_batch, prev_preds_dict, pred_ids,
                   total_updates, n_iter, ori_batch, truncated_seq_lengths,
                   label_probs, label_ids, max_detect_incor_probs, decode_args,
                   label_action, predict_calls, diff_pairs, deact, run, first_run, memo>>

\* a direct call of get_label_action(token, idx, label_prob, label)
GetLabelAction ==
    /\ pc = "decode"
    /\ LET r == get_label_action(decode_args.token, decode_args.idx,
                                 decode_args.label_prob, decode_args.label)
       IN  IF r.kind = "raise"
           THEN /\ pc' = "raised"
                /\ exc' = r.exc
                /\ label_action' = label_action
           ELSE /\ pc' = "decoded"
                /\ exc' = exc
                /\ label_action' = r
    /\ UNCHANGED <<self, full_batch, final_batch, prev_preds_dict, pred_ids,
                   total_updates, n_iter, ori_batch, truncated_seq_lengths,
                   label_probs, label_ids, max_detect_incor_probs, pred_batch,
                   edits_batch, decode_args, predict_calls, diff_pairs, deact, run,
                   first_run, memo>>

Next == Call \/ Iterate \/ Recall

NextDecode == Tag \/ Postprocess \/ GetLabelAction

----------------------------------------------------------------------------
(* Initial states. *)

\* the sequences over S of length at most n
RECURSIVE SeqsUpTo(_, _)
SeqsUpTo(S, n) ==
    IF n = 0 THEN {<<>>}
    ELSE LET shorter == SeqsUpTo(S, n - 1)
         IN  shorter \cup {Append(s, x) : s \in {t \in shorter : Len(t) = n - 1}, x \in S}

\* n times the word w
Rep(w, n) == [i \in 1 .. n |-> w]

\* a tagger of a few labels, all at the confidence floor
SmallModel(deterministic) ==
    [labels |-> {L_DELETE, L_REPLACE_b, L_APPEND_a, L_SWAP_x},
     probs |-> {1},
     incor_probs |-> {1},
     deterministic |-> deterministic,
     max_words |-> MaxLen]

\* a tagger of every label of the vocabulary at every probability
FullModel ==
    [labels |-> Range(VocabKeepFirst) \ {KEEP_LABEL},
     probs |-> Probs,
     incor_probs |-> {0, 1},
     deterministic |-> FALSE,
     max_words |-> MaxDecodeLen + MaxNonKeep]

BaseConfig ==
    [iteration_count |-> 1,
     min_seq_len |-> 0,
     max_num_tokens |-> 8,
     min_error_probability |-> 1,
     max_pieces_per_token |-> 1,
     debug_force_edit |-> FALSE,
     id2tag |-> VocabKeepFirst,
     model |-> FullModel]

InitCommon ==
    /\ final_batch = <<>>
    /\ prev_preds_dict = <<>>
    /\ pred_ids = <<>>
    /\ total_updates = 0
    /\ n_iter = 0
    /\ exc = "none"
    /\ pred_batch = <<>>
    /\ edits_batch = <<>>
    /\ label_action = None
    /\ predict_calls = 0
    /\ diff_pairs = 0
    /\ deact = <<>>
    /\ run = 1
    /\ first_run = [returned |-> <<>>, total_updates |-> 0, converged |-> FALSE]
    /\ memo = <<>>

\* the orchestrator runs: batches of short sentences, several passes
Init ==
    /\ self \in {[BaseConfig EXCEPT !.iteration_count = k, !.min_seq_len = m,
                                     !.model = SmallModel(d)] :
                   k \in 1 .. MaxIter, m \in {0, 2}, d \in BOOLEAN}
    /\ full_batch \in SeqsUpTo(SeqsUpTo({W_a}, MaxLen), MaxBatch)
    /\ pc = "pending"
    /\ ori_batch = <<>>
    /\ truncated_seq_lengths = <<>>
    /\ label_probs = <<>>
    /\ label_ids = <<>>
    /\ max_detect_incor_probs = <<>>
    /\ decode_args = <<>>
    /\ InitCommon

Spec == Init /\ [][Next]_vars

\* the decoding runs: the tagger and postprocess on one sentence, under every
\* output of a tagger of the whole vocabulary
DecodeCases ==
    {<<BaseConfig, s>> : s \in SeqsUpTo({W_a, W_sp}, 2)}
    \cup {<<BaseConfig, Rep(W_a, n)>> : n \in 3 .. MaxDecodeLen - 1}
    \cup {<<[BaseConfig EXCEPT !.debug_force_edit = TRUE], Rep(W_a, n)>> :
            n \in 3 .. MaxDecodeLen}
    \cup {<<[BaseConfig EXCEPT !.id2tag = VocabKeepLater], Rep(W_a, n)>> :
            n \in 1 .. 2}
    \cup {<<[BaseConfig EXCEPT !.max_num_tokens = 2], Rep(W_a, n)>> : n \in 2 .. 2}
    \cup {<<[BaseConfig EXCEPT !.max_num_tokens = 2, !.debug_force_edit = TRUE],
             <<W_a, W_a, W_sp, W_a>>>>}

\* a tagged sentence, for the tagger and postprocess
InitPostprocess ==
    /\ \E c \in DecodeCases :
          /\ self = c[1]
          /\ ori_batch = <<c[2]>>
          /\ full_batch = <<c[2]>>
    /\ truncated_seq_lengths = <<encode(ori_batch[1])>>
    /\ decode_args = <<>>
    /\ pc = "tag"

\* one label at one position, for get_label_action
InitGetLabelAction ==
    /\ self \in {[BaseConfig EXCEPT !.min_error_probability = p] : p \in Probs}
    /\ decode_args \in [token : {W_a, W_sp, START_TOKEN},
                        idx : 0 .. MaxDecodeLen,
                        label_prob : Probs,
                        label : Range(VocabKeepFirst) \cup {L_REPLACE_a_b}]
    /\ ori_batch = <<>>
    /\ full_batch = <<>>
    /\ truncated_seq_lengths = <<>>
    /\ pc = "decode"

InitDecode ==
    /\ InitPostprocess \/ InitGetLabelAction
    /\ label_probs = <<>>
    /\ label_ids = <<>>
    /\ max_detect_incor_probs = <<>>
    /\ InitCommon

SpecDecode == InitDecode /\ [][NextDecode]_vars

\* the runs of get_label_action alone: every label of the vocabulary at every
\* position and probability, under every confidence floor
InitLabel ==
    /\ InitGetLabelAction
    /\ label_probs = <<>>
    /\ label_ids = <<>>
    /\ max_detect_incor_probs = <<>>
    /\ InitCommon

NextLabel == GetLabelAction

SpecLabel == InitLabel /\ [][NextLabel]_vars

----------------------------------------------------------------------------
(* Vocabulary of the properties. *)

\* sentence k is in the active set
Active(k) == k \in Range(pred_ids)

\* sentence k is below min_seq_len when handle_batch starts
Short(k) == Len(full_batch[k]) < self.min_seq_len

\* a label of one of the five families
Recognized(label) ==
    \/ label = L_DELETE
    \/ \E prefix \in {P_REPLACE, P_TRANSFORM, P_APPEND, P_MERGE} :
          startswith(label, prefix)

Sentinel(label) == label \in {UNK_LABEL, PAD_LABEL, KEEP_LABEL}

\* a direct call of postprocess has ended, and one of get_label_action
PostprocessEnded == pc \in {"returned", "raised"} /\ label_ids # <<>>
GetLabelActionEnded == pc \in {"decoded", "raised"} /\ decode_args # <<>>

\* the label, probability and token at prefixed position idx of the tagged sentence
LabelAt(idx) == self.id2tag[label_ids[1][idx + 1] + 1]
ProbAt(idx) == label_probs[1][idx + 1]
TokenAt(idx) == IF idx = 0 THEN START_TOKEN ELSE ori_batch[1][idx]
Positions == 0 .. truncated_seq_lengths[1] - 1

\* postprocess went past both of its guards and into its decoding loop
\* (to be read where PostprocessEnded)
Decoding ==
    /\ \/ self.debug_force_edit
       \/ \E idx \in 0 .. Len(label_ids[1]) - 1 : label_ids[1][idx + 1] > keep_id
    /\ max_detect_incor_probs[1] >= self.min_error_probability

\* the label at idx is handed to get_label_action and passes its floor
Candidate(idx) ==
    /\ LabelAt(idx) # KEEP_LABEL
    /\ ~MatchesWhitespace(TokenAt(idx))
    /\ ProbAt(idx) >= self.min_error_probability

----------------------------------------------------------------------------
(* C1: for any tagger handle_batch runs at most iteration_count tagging
   passes, and the active set never grows; for a sentence that oscillates
   (start A, history <<A, B>> after the first pass accepted B and kept it
   active) the next pass reaches the tagger, and when the tagger proposes the
   already seen A, A is accepted and the sentence leaves the active set. *)

Oscillating(k) ==
    /\ pc = "loop"
    /\ Active(k)
    /\ Len(prev_preds_dict[k]) = 2
    /\ final_batch[k] = prev_preds_dict[k][2]

ProposalFor(k) ==
    pred_batch'[CHOOSE i \in 1 .. Len(pred_ids) : pred_ids[i] = k]

C1_OscillationTerminates ==
    [][/\ predict_calls' <= self'.iteration_count
       /\ pc = "loop" => Range(pred_ids') \subseteq Range(pred_ids)
       /\ \A k \in DOMAIN final_batch :
             Oscillating(k) =>
                /\ predict_calls' = predict_calls + 1
                /\ (pc' # "raised" /\ ProposalFor(k) = prev_preds_dict[k][1]) =>
                      /\ final_batch'[k] = prev_preds_dict[k][1]
                      /\ k \notin Range(pred_ids')]_vars

----------------------------------------------------------------------------
(* C2: handle_batch on an empty batch, or on a batch whose sentences are all
   shorter than min_seq_len, returns normally with the batch unchanged and
   total_update_count = 0, without a call of the tagger. *)

C2_NothingToTagReturns ==
    (pc # "pending" /\ \A k \in DOMAIN full_batch : Short(k)) =>
        /\ pc # "raised"
        /\ predict_calls = 0
        /\ pc = "done" => final_batch = full_batch /\ total_updates = 0

----------------------------------------------------------------------------
(* C3: a label that passes the confidence floor, is no sentinel and belongs to
   no family yields no edit and raises nothing: get_label_action returns none
   for it, postprocess still collects the edits of the other positions of the
   sentence, and returns. *)

UnknownFamily(label) == ~Sentinel(label) /\ ~Recognized(label)

C3_UnknownFamilyDropped ==
    /\ (GetLabelActionEnded /\ UnknownFamily(decode_args.label)
            /\ decode_args.label_prob >= self.min_error_probability) =>
          pc = "decoded" /\ label_action = None
    /\ (PostprocessEnded /\ Decoding
            /\ \E idx \in Positions : Candidate(idx) /\ UnknownFamily(LabelAt(idx))) =>
          /\ pc = "returned"
          /\ \A idx \in Positions :
                Candidate(idx) /\ Recognized(LabelAt(idx)) =>
                   \E e \in Range(edits_batch[1]) :
                      e = get_label_action(TokenAt(idx), idx, ProbAt(idx), LabelAt(idx))

----------------------------------------------------------------------------
(* C4: a sentence shorter than min_seq_len at the start of handle_batch is
   never in the active set, so never part of a batch handed to the tagger, and
   its current sequence and history stay its input, in every state of every
   call, whatever happens to the other sentences. *)

C4_ShortSentenceUntouched ==
    pc \in {"loop", "done", "raised"} =>
        \A k \in DOMAIN full_batch :
            Short(k) =>
               /\ ~Active(k)
               /\ final_batch[k] = full_batch[k]
               /\ prev_preds_dict[k] = <<full_batch[k]>>
               /\ deact[k] = "short"

\* a call has returned with a non-empty short sentence beside one it rewrote
C4_Witness ==
    /\ pc = "done"
    /\ predict_calls >= 1
    /\ \E k, j \in DOMAIN full_batch :
          /\ Short(k) /\ full_batch[k] # <<>>
          /\ ~Short(j) /\ final_batch[j] # full_batch[j]

----------------------------------------------------------------------------
(* C5: with a deterministic tagger, when a call of handle_batch ended with
   every tagged sentence deactivated by convergence, the call on the returned
   batch with iteration_count = 1 returns that same batch, with
   total_update_count = 0. *)

C5_IdempotentOnConvergence ==
    (run = 2 /\ first_run.converged /\ pc \in {"done", "raised"}) =>
        /\ pc = "done"
        /\ final_batch = first_run.returned
        /\ total_updates = 0

----------------------------------------------------------------------------
(* C6: the merge treats each active sentence in exactly one of three ways.
   proposal = current: current and history unchanged, deactivated;
   proposal # current and not in the history: current := proposal, proposal
   appended to the history, still active;
   proposal # current and in the history: current := proposal, history
   unchanged, deactivated. Sentences outside the active set are not touched. *)

\* this step is a completed iteration of the loop
Merged == pc = "loop" /\ n_iter' = n_iter + 1

C6_MergeThreeWays ==
    [][Merged =>
         /\ \A i \in 1 .. Len(pred_ids) :
               LET k == pred_ids[i]
                   current == final_batch[k]
                   proposal == pred_batch'[i]
                   history == prev_preds_dict[k]
               IN  /\ proposal = current =>
                        /\ final_batch'[k] = current
                        /\ prev_preds_dict'[k] = history
                        /\ k \notin Range(pred_ids')
                   /\ (proposal # current /\ proposal \notin Range(history)) =>
                        /\ final_batch'[k] = proposal
                        /\ prev_preds_dict'[k] = Append(history, proposal)
                        /\ k \in Range(pred_ids')
                   /\ (proposal # current /\ proposal \in Range(history)) =>
                        /\ final_batch'[k] = proposal
                        /\ prev_preds_dict'[k] = history
                        /\ k \notin Range(pred_ids')
         /\ \A k \in DOMAIN final_batch :
               ~Active(k) =>
                  /\ final_batch'[k] = final_batch[k]
                  /\ prev_preds_dict'[k] = prev_preds_dict[k]
                  /\ k \notin Range(pred_ids')]_vars

\* one call has seen all three: a converged sentence, a cycle break after a
\* fresh acceptance
C6_Witness ==
    /\ pc = "done"
    /\ \E k, j \in DOMAIN deact :
          /\ deact[k] = "cycle" /\ Len(prev_preds_dict[k]) >= 2
          /\ deact[j] = "converged"

----------------------------------------------------------------------------
(* C7: total_updates is the number of (sentence, pass) pairs whose proposal
   differed from the sentence's current sequence, fresh acceptances and cycle
   breaks alike; and what stays active and when the loop stops is decided by
   the proposals and the budget alone: the active set after a merge is the
   sentences with a fresh proposal, in order, and the loop ends exactly when
   that set is empty or the budget is spent. *)

FreshAt(i) ==
    /\ pred_batch'[i] # final_batch[pred_ids[i]]
    /\ pred_batch'[i] \notin Range(prev_preds_dict[pred_ids[i]])

C7_UpdateCount ==
    [][/\ total_updates' = diff_pairs'
       /\ Merged =>
            /\ total_updates' - total_updates =
                  Cardinality({i \in 1 .. Len(pred_ids) :
                                 pred_batch'[i] # final_batch[pred_ids[i]]})
            /\ Range(pred_ids') = {pred_ids[i] : i \in {j \in 1 .. Len(pred_ids) :
                                                          FreshAt(j)}}
            /\ (pc' = "done") <=>
                  (pred_ids' = <<>> \/ n_iter' >= self.iteration_count)]_vars

\* a call returned a count that includes a cycle break and leaves out a
\* converged proposal
C7_Witness ==
    /\ pc = "done"
    /\ total_updates >= 2
    /\ n_iter >= 2
    /\ \E k \in DOMAIN deact : deact[k] = "cycle" /\ final_batch[k] = full_batch[k]
    /\ \E j \in DOMAIN deact : deact[j] = "converged" /\ final_batch[j] = full_batch[j]

----------------------------------------------------------------------------
(* C8, as claimed: in postprocess, if every position's label is $KEEP, or the
   aggregate incorrectness probability is below min_error_probability, the
   proposal is the input sequence. *)

AllLabelsKeep == \A i \in 1 .. Len(label_ids[1]) : label_ids[1][i] = keep_id

C8_GuardsKeepInput ==
    (PostprocessEnded
        /\ (AllLabelsKeep \/ max_detect_incor_probs[1] < self.min_error_probability)) =>
        pc = "returned" /\ pred_batch[1] = ori_batch[1]

(* C8, amended: the same, except that in debug mode (debug_force_edit) a
   sentence of more than 3 words whose labels are all $KEEP is not exempt. *)

C8_GuardsKeepInputUnlessForced ==
    (PostprocessEnded
        /\ \/ AllLabelsKeep /\ (~self.debug_force_edit \/ Len(ori_batch[1]) <= 3)
           \/ max_detect_incor_probs[1] < self.min_error_probability) =>
        pc = "returned" /\ pred_batch[1] = ori_batch[1]

\* postprocess returned the input although a confident $DELETE and the forced
\* edits of debug mode were at hand
C8_Witness ==
    /\ pc = "returned"
    /\ label_ids # <<>>
    /\ self.debug_force_edit
    /\ Len(ori_batch[1]) > 3
    /\ max_detect_incor_probs[1] < self.min_error_probability
    /\ \E idx \in Positions : LabelAt(idx) = L_DELETE /\ ProbAt(idx) = ProbOne
    /\ pred_batch[1] = ori_batch[1]

----------------------------------------------------------------------------
(* C9: get_label_action returns none whenever the label's probability is below
   min_error_probability, whatever the label, and for the sentinels at any
   probability; a label of one of the families at exactly the floor yields an
   edit whose confidence is that probability. *)

C9_FloorAndSentinels ==
    GetLabelActionEnded =>
        /\ decode_args.label_prob < self.min_error_probability =>
              pc = "decoded" /\ label_action = None
        /\ Sentinel(decode_args.label) => pc = "decoded" /\ label_action = None
        /\ (Recognized(decode_args.label)
               /\ decode_args.label_prob = self.min_error_probability) =>
              /\ pc = "decoded"
              /\ label_action.kind = "action"
              /\ label_action.prob = decode_args.label_prob

\* $DELETE at exactly the floor gave an edit
C9_Witness ==
    /\ pc = "decoded"
    /\ decode_args.label = L_DELETE
    /\ decode_args.label_prob = self.min_error_probability
    /\ self.min_error_probability > 0
    /\ label_action.kind = "action"
    /\ label_action.prob = self.min_error_probability

----------------------------------------------------------------------------
(* C10: for an accepted label at prefixed position idx the edit spans
   (idx - 1, idx) for $REPLACE_, $TRANSFORM_ and $DELETE and the zero-width
   (idx, idx) for $APPEND_ and $MERGE_; the call with position 2, probability
   1.0 and label $APPEND_a returns (2, 2, "a", 1.0). *)

C10_Spans ==
    (GetLabelActionEnded /\ Recognized(decode_args.label)
        /\ decode_args.label_prob >= self.min_error_probability) =>
        /\ pc = "decoded"
        /\ label_action.kind = "action"
        /\ (\/ startswith(decode_args.label, P_REPLACE)
            \/ startswith(decode_args.label, P_TRANSFORM)
            \/ decode_args.label = L_DELETE) =>
              /\ label_action.start = decode_args.idx - 1
              /\ label_action.end = decode_args.idx
        /\ (\/ startswith(decode_args.label, P_APPEND)
            \/ startswith(decode_args.label, P_MERGE)) =>
              /\ label_action.start = decode_args.idx
              /\ label_action.end = decode_args.idx
        /\ (decode_args.idx = 2 /\ decode_args.label_prob = ProbOne
               /\ decode_args.label = L_APPEND_a) =>
              label_action = [kind |-> "action", start |-> 2, end |-> 2,
                              label |-> <<"a">>, prob |-> ProbOne]

\* the call of the example has returned
C10_Witness ==
    /\ pc = "decoded"
    /\ decode_args.idx = 2
    /\ decode_args.label_prob = ProbOne
    /\ decode_args.label = L_APPEND_a
    /\ label_action.start = 2
    /\ label_action.end = 2

----------------------------------------------------------------------------
(* C11: the replacement text of the edit get_label_action returns is empty for
   $DELETE, the whole label for $TRANSFORM_ and $MERGE_ labels, and for
   $REPLACE_ and $APPEND_ labels what follows the label's first "_" (the family
   prefix holds the first "_", so that is the label without its prefix), a
   payload with a "_" of its own kept whole: "$REPLACE_a_b" gives "a_b". *)

C11_ReplacementText ==
    (GetLabelActionEnded /\ Recognized(decode_args.label)
        /\ decode_args.label_prob >= self.min_error_probability) =>
        /\ pc = "decoded"
        /\ label_action.kind = "action"
        /\ decode_args.label = L_DELETE => label_action.label = <<>>
        /\ (\/ startswith(decode_args.label, P_TRANSFORM)
            \/ startswith(decode_args.label, P_MERGE)) =>
              label_action.label = decode_args.label
        /\ startswith(decode_args.label, P_REPLACE) =>
              P_REPLACE \o label_action.label = decode_args.label
        /\ startswith(decode_args.label, P_APPEND) =>
              P_APPEND \o label_action.label = decode_args.label
        /\ decode_args.label = L_REPLACE_a_b =>
              label_action.label = <<"a", "_", "b">>

\* "$REPLACE_a_b" was decoded to the payload "a_b"
C11_Witness ==
    /\ pc = "decoded"
    /\ decode_args.label = L_REPLACE_a_b
    /\ label_action.kind = "action"
    /\ label_action.label = <<"a", "_", "b">>

----------------------------------------------------------------------------
(* C12, as claimed: no edit of the list postprocess builds for a sentence comes
   from a position whose token matches whitespace, whatever the labels, the
   probabilities and the configuration. An edit comes from the prefixed
   position that is its end: get_label_action gives end = idx to either span,
   and the forced edit (i, i + 1) is the one for tokens[i]. *)

\* the token holds a whitespace character
Blank(token) == \E c \in Range(token) : IsSpace(c)

C12_NoEditFromWhitespace ==
    (pc = "returned" /\ label_ids # <<>>) =>
        \A e \in Range(edits_batch[1]) : ~Blank(TokenAt(e.end))

(* C12, amended: no edit decoded from a label of the tagger comes from a
   position whose token matches whitespace; the forced edits of debug mode are
   placed whatever the token is. *)

C12_NoDecodedEditFromWhitespace ==
    (pc = "returned" /\ label_ids # <<>>) =>
        \A e \in Range(edits_batch[1]) :
            \/ e \in Range(ForcedEdits(ori_batch[1]))
            \/ ~Blank(TokenAt(e.end))

\* a confident label of a family sat on a blank token and gave no edit, while
\* another position of the sentence gave one
C12_Witness ==
    /\ pc = "returned"
    /\ label_ids # <<>>
    /\ edits_batch[1] # <<>>
    /\ \E idx \in Positions :
          /\ Blank(TokenAt(idx))
          /\ Recognized(LabelAt(idx))
          /\ ProbAt(idx) >= self.min_error_probability
          /\ \A e \in Range(edits_batch[1]) : e.end # idx

----------------------------------------------------------------------------
(* C13: the applier, run left to right with its running delta over edits that
   are sorted by start and whose original ranges lie in the sentence and do not
   overlap, returns the original sequence with every range replaced, each on
   its own, by the words of its replacement; apply(words, <<>>) = words,
   apply(<<a, b, c>>, <<(1, 2, "x")>>) = <<a, x, c>> and
   apply(<<a, b>>, <<(0, 1, ""), (1, 2, "y")>>) = <<y>>; and postprocess
   returns the input sentence when no edit survives decoding. *)

\* an edit of the given span and replacement
Edit(start, end, label) ==
    [kind |-> "action", start |-> start, end |-> end, label |-> label, prob |-> ProbOne]

\* edits in ascending order whose ranges lie in words and do not overlap
WellFormed(words, edits) ==
    /\ \A i \in 1 .. Len(edits) :
          0 <= edits[i].start /\ edits[i].start <= edits[i].end
          /\ edits[i].end <= Len(words)
    /\ \A i \in 1 .. Len(edits) - 1 : edits[i].end <= edits[i + 1].start

\* the words the insertions at original position p bring, in the order of the list
RECURSIVE InsertedAt(_, _, _)
InsertedAt(edits, p, i) ==
    IF i > Len(edits)
    THEN <<>>
    ELSE (IF edits[i].start = p /\ edits[i].end = p THEN split(edits[i].label) ELSE <<>>)
         \o InsertedAt(edits, p, i + 1)

\* what stands for the original word at position p: the replacement of the
\* range it opens, nothing inside a range, else the word itself
StandsFor(words, edits, p) ==
    IF \E i \in 1 .. Len(edits) : edits[i].start <= p /\ p < edits[i].end
    THEN LET i == CHOOSE i \in 1 .. Len(edits) : edits[i].start <= p /\ p < edits[i].end
         IN  IF edits[i].start = p THEN split(edits[i].label) ELSE <<>>
    ELSE <<words[p + 1]>>

\* every range of the original replaced on its own, no delta involved
RECURSIVE SubstituteFrom(_, _, _)
SubstituteFrom(words, edits, p) ==
    IF p > Len(words)
    THEN <<>>
    ELSE InsertedAt(edits, p, 1)
         \o (IF p < Len(words) THEN StandsFor(words, edits, p) ELSE <<>>)
         \o SubstituteFrom(words, edits, p + 1)

C13_ApplierSubstitutes ==
    /\ get_target_sent_by_edits(<<W_a, W_b, <<"c">>>>, <<Edit(1, 2, <<"x">>)>>)
          = <<W_a, <<"x">>, <<"c">>>>
    /\ get_target_sent_by_edits(<<W_a, W_b>>, <<Edit(0, 1, <<>>), Edit(1, 2, <<"y">>)>>)
          = <<<<"y">>>>
    /\ \A i \in 1 .. Len(ori_batch) :
          get_target_sent_by_edits(ori_batch[i], <<>>) = ori_batch[i]
    /\ (pc = "returned" /\ label_ids # <<>>) =>
          /\ edits_batch[1] = <<>> => pred_batch[1] = ori_batch[1]
          /\ WellFormed(ori_batch[1], edits_batch[1]) =>
                pred_batch[1] = SubstituteFrom(ori_batch[1], edits_batch[1], 0)

\* postprocess applied a deletion and then an edit behind it
C13_Witness ==
    /\ pc = "returned"
    /\ label_ids # <<>>
    /\ Len(edits_batch[1]) >= 2
    /\ WellFormed(ori_batch[1], edits_batch[1])
    /\ edits_batch[1][1].label = <<>>
    /\ edits_batch[1][2].end > edits_batch[1][2].start
    /\ pred_batch[1] = SubstituteFrom(ori_batch[1], edits_batch[1], 0)
    /\ pred_batch[1] # ori_batch[1]

----------------------------------------------------------------------------
(* C14: every edit postprocess collects for a sentence of n words has
   positions of the caller's unprefixed indexing, 0 <= start <= end <= n,
   whatever the tagger gave, a label other than $KEEP on the start marker at
   prefixed position 0 included. *)

C14_EditPositionsInRange ==
    (pc = "returned" /\ label_ids # <<>>) =>
        \A e \in Range(edits_batch[1]) :
            0 <= e.start /\ e.start <= e.end /\ e.end <= Len(ori_batch[1])

----------------------------------------------------------------------------
(* C15: the edit list postprocess hands to the applier is ordered by
   non-decreasing start, holds at most one edit per position of the tagger's
   output, and no two of its edits have overlapping half-open ranges, whatever
   the tagger gave and whatever the configuration. *)

\* the half-open ranges of two edits share a position
Overlapping(e, f) == Max(e.start, f.start) < Min(e.end, f.end)

C15_EditsOrderedAndDisjoint ==
    (pc = "returned" /\ label_ids # <<>>) =>
        LET edits == edits_batch[1]
        IN  /\ \A i \in 1 .. Len(edits) - 1 : edits[i].start <= edits[i + 1].start
            /\ \A i, j \in 1 .. Len(edits) :
                  i # j => /\ edits[i].end # edits[j].end
                           /\ ~Overlapping(edits[i], edits[j])

----------------------------------------------------------------------------
(* C17: postprocess takes its all-KEEP fast path (max(label_ids) == keep_id)
   only for a sentence whose label at every position is $KEEP, under every
   assignment of ids to the vocabulary; so a sentence with a confident label
   of a family on a word and an aggregate incorrectness probability at or
   above the floor is not returned without an edit. *)

C17_FastPathOnlyAllKeep ==
    PostprocessEnded =>
        /\ (IsAllKeep(label_ids[1]) /\ ~self.debug_force_edit) => AllLabelsKeep
        /\ (/\ pc = "returned"
            /\ ~self.debug_force_edit
            /\ max_detect_incor_probs[1] >= self.min_error_probability
            /\ \E idx \in Positions : Candidate(idx) /\ Recognized(LabelAt(idx))) =>
              edits_batch[1] # <<>>

----------------------------------------------------------------------------
(* C16: across the passes of one call of handle_batch the active set only
   shrinks; the tagger is invoked at most once per pass, and on the current
   sequences of the active sentences, in order; and a sentence outside the
   active set (converged, cycle-broken or short) keeps its current sequence
   and stays outside until the call ends. *)

C16_ActiveSetShrinks ==
    [][pc = "loop" =>
         /\ Range(pred_ids') \subseteq Range(pred_ids)
         /\ predict_calls = n_iter
         /\ predict_calls' \in {predict_calls, predict_calls + 1}
         /\ predict_calls' = predict_calls + 1 =>
               ori_batch' = [i \in 1 .. Len(pred_ids) |-> final_batch[pred_ids[i]]]
         /\ \A k \in DOMAIN final_batch :
               ~Active(k) => /\ final_batch'[k] = final_batch[k]
                             /\ ~(k \in Range(pred_ids'))]_vars

\* a sentence that converged in the first pass kept its sequence while another
\* was rewritten in two passes
C16_Witness ==
    /\ pc = "done"
    /\ n_iter >= 2
    /\ \E k, j \in DOMAIN deact :
          /\ deact[k] = "converged"
          /\ Len(prev_preds_dict[k]) = 1
          /\ final_batch[k] # <<>>
          /\ Len(prev_preds_dict[j]) >= 3

----------------------------------------------------------------------------
(* C18: in every state of a call of handle_batch, every sentence's history
   starts with its input sequence, holds no sequence twice, holds the current
   sequence, and has at most 1 + (completed passes) <= 1 + iteration_count
   entries; the current sequence of an active sentence is the last entry. *)

C18_HistoryShape ==
    pc \in {"loop", "done", "raised"} =>
        /\ n_iter <= self.iteration_count
        /\ \A k \in DOMAIN final_batch :
              LET history == prev_preds_dict[k]
              IN  /\ history[1] = full_batch[k]
                  /\ \A i, j \in 1 .. Len(history) : i # j => history[i] # history[j]
                  /\ \E i \in 1 .. Len(history) : history[i] = final_batch[k]
                  /\ Len(history) <= 1 + n_iter
                  /\ Active(k) => final_batch[k] = history[Len(history)]

\* the budget ran out on a sentence rewritten in every pass: its history is
\* as long as it can get
C18_Witness ==
    /\ pc = "done"
    /\ self.iteration_count >= 2
    /\ n_iter = self.iteration_count
    /\ \E k \in DOMAIN final_batch :
          /\ Active(k)
          /\ Len(prev_preds_dict[k]) = 1 + self.iteration_count

----------------------------------------------------------------------------
(* C19, as claimed: when the alignment keeps truncated_seq_length prefixed
   words of a sentence, every edit postprocess emits has
   end <= truncated_seq_length - 1, and the words cut off lie in no edit's
   range: the proposal ends with them, unchanged and in order. *)

\* the words of the sentence the alignment cut off
CutOff == Drop(ori_batch[1], truncated_seq_lengths[1] - 1)

\* the proposal ends with the words cut off
CarriesCutOff ==
    /\ Len(pred_batch[1]) >= Len(CutOff)
    /\ Drop(pred_batch[1], Len(pred_batch[1]) - Len(CutOff)) = CutOff

====
